---- MODULE Spec2Model ----
(***************************************************************************)
(* A model of the video circle bot: config.py (Config), video_processor.py *)
(* (VideoProcessor) and bot.py (the command handlers and handle_video).    *)
(*                                                                         *)
(* Time is counted in tenths of a second, so that the 0.5 s floor of       *)
(* create_video_circle and durations below it are integers.  An Optional   *)
(* value of the code is a set with at most one element: {} is None.        *)
(* The file system is the content of TEMP_DIR: a function from paths to    *)
(* sizes.  os.unlink is taken to succeed; the codec and audio parameters   *)
(* of the transcoding job and the texts of the replies are left out.       *)
(***************************************************************************)
EXTENDS Integers, Sequences, FiniteSets, TLC

VARIABLES cfg, user_settings, files, req, loop

vars == <<cfg, user_settings, files, req, loop>>

-----------------------------------------------------------------------------
(* Bounds of the model *)

\* number of video messages (and of direct process_video calls)
MaxReq == 2
\* longest probed duration of the segment specification, in tenths of a second
MaxDur == 620
\* largest target duration of the segment specification, in seconds
MaxTarget == 61

-----------------------------------------------------------------------------
(* Optional values and small helpers *)

None == {}

Some(x) == {x}

Get(o) == CHOOSE x \in o : TRUE

Min(a, b) == IF a <= b THEN a ELSE b

Max(a, b) == IF a >= b THEN a ELSE b

\* seconds to tenths of a second
Secs(n) == n * 10

-----------------------------------------------------------------------------
(* config.py *)

\* Config.CIRCLE_SIZE: the side of the square of each quality tier
CIRCLE_SIZE == [low |-> 240, medium |-> 480, high |-> 720]

\* the environments the process may be started in: BOT_TOKEN, CIRCLE_DURATION,
\* CIRCLE_QUALITY and MAX_FILE_SIZE_MB as read by os.getenv at import
Env(durations, qualities) ==
    [BOT_TOKEN : {"", "token"}, CIRCLE_DURATION : durations,
     CIRCLE_QUALITY : qualities, MAX_FILE_SIZE_MB : {1}]

\* Config.validate: TRUE when it returns, FALSE when it raises ValueError
Validate(c) ==
    /\ c.BOT_TOKEN # ""
    /\ ~(c.CIRCLE_DURATION > 60)
    /\ c.CIRCLE_QUALITY \in DOMAIN CIRCLE_SIZE

\* Config.MAX_FILE_SIZE_BYTES
MAX_FILE_SIZE_BYTES(c) == c.MAX_FILE_SIZE_MB * 1024 * 1024

\* VideoProcessor.__init__: self.circle_size
circle_size(c) == CIRCLE_SIZE[c.CIRCLE_QUALITY]

\* the environments of the bot specification
BotEnv == Env({0, 10, 61}, {"medium", "ultra"})

\* the environments of the filter specification: every quality tier
TierEnv == Env({10}, {"low", "medium", "high", "ultra"})

-----------------------------------------------------------------------------
(* video_processor.py: the pure parts *)

\* calculate_start_segment without the clamp to the source's duration
calculate_start_segment_unclamped(duration, target_duration) ==
    <<0, Secs(target_duration)>>

\* calculate_start_segment(duration, target_duration): <<start, end>>, with
\* duration in tenths of a second and target_duration in seconds
calculate_start_segment(duration, target_duration) ==
    IF duration <= Secs(target_duration)
    THEN <<0, duration>>
    ELSE <<0, Min(duration, Secs(target_duration))>>

\* the floor of segment_duration: 0.5 s
MinSegment == 5

\* segment_duration without the floor
SegmentDuration_nofloor(start_time, end_time) == end_time - start_time

\* create_video_circle: segment_duration = max(0.5, end_time - start_time)
SegmentDuration(start_time, end_time) == Max(MinSegment, end_time - start_time)

\* The <<size, percent>> of the tiers and of 50..300 for which the double
\* product size * (percent / 100.0) falls just below the exact integer
\* size * percent / 100, so that int() truncates to one less.
TruncatedBelow ==
    {<<240, 205>>, <<480, 205>>, <<720, 70>>, <<720, 115>>, <<720, 140>>,
     <<720, 205>>, <<720, 230>>, <<720, 255>>, <<720, 280>>}

\* int(size * zoom_factor) with zoom_factor = scale_percent / 100.0
IntScaled(size, scale_percent) ==
    ((size * scale_percent) \div 100)
        - (IF <<size, scale_percent>> \in TruncatedBelow THEN 1 ELSE 0)

\* int(size * max(1.2, zoom_factor))
IntermediateSize(size, scale_percent) ==
    IF scale_percent > 120 THEN IntScaled(size, scale_percent)
                           ELSE IntScaled(size, 120)

\* the stages of a filter graph: "cover" is scale with the shorter side set
\* to w (= h) and force_original_aspect_ratio=increase
Stage(op, w, h) == [op |-> op, w |-> w, h |-> h]

\* create_scale_filter: the filter string as its sequence of stages
create_scale_filter(size, scale_percent) ==
    IF scale_percent = 100
    THEN << Stage("cover", size, size), Stage("crop", size, size) >>
    ELSE LET intermediate_size == IntermediateSize(size, scale_percent)
             zoomed == IntScaled(size, scale_percent)
         IN  << Stage("cover", intermediate_size, intermediate_size),
                Stage("crop", intermediate_size, intermediate_size),
                Stage("scale", zoomed, zoomed),
                Stage("crop", size, size) >>

\* what the engine makes of a frame <<w, h>> at one stage: "cover" sets the
\* shorter side to the size and keeps the aspect ratio of the other (rounded),
\* "scale" sets both sides, "crop" cuts w x h out of the frame
ApplyStage(st, frame) ==
    CASE st.op = "cover" ->
            IF frame[1] > frame[2]
            THEN << (2 * frame[1] * st.h + frame[2]) \div (2 * frame[2]), st.h >>
            ELSE IF frame[2] > frame[1]
            THEN << st.w, (2 * frame[2] * st.w + frame[1]) \div (2 * frame[1]) >>
            ELSE << st.w, st.h >>
      [] st.op = "scale" -> << st.w, st.h >>
      [] OTHER -> << st.w, st.h >>

RECURSIVE FrameAfter(_, _, _)
\* the frame after the first k stages of graph, from the source frame
FrameAfter(graph, k, frame) ==
    IF k = 0 THEN frame
    ELSE ApplyStage(graph[k], FrameAfter(graph, k - 1, frame))

\* the check of the output without os.path.getsize
OutputOk_exists(fs, path) == path \in DOMAIN fs

\* create_video_circle, line 144: the output exists and is not empty
OutputOk(fs, path) == path \in DOMAIN fs /\ fs[path] > 0

-----------------------------------------------------------------------------
(* The state *)

\* the video messages, in the order of their arrival
Req == 1 .. MaxReq

\* loop = Running(r) while request r runs a synchronous stretch of its handler
\* (nothing else runs on the event loop); loop = None between such stretches
Running(r) == Some(r)

\* the path of the downloaded source, bot.py line 162:
\* os.path.join(TEMP_DIR, f"input_{file_unique_id}.mp4")
InputPath(file_unique_id) == <<"input", file_unique_id>>

\* the names NamedTemporaryFile may draw in TEMP_DIR
TempPaths == {<<"tmp", n>> : n \in Req}

\* a handler, and the process_video call in it, before anything has run.
\* update: user, video, file_size.  handle_video: input_path, output_path,
\* reply, downloaded.  process_video: duration_override, scale_override,
\* output, target_duration, target_scale, created, result.
\* create_video_circle: info, start_time, end_time, segment_duration,
\* video_filter, engine.  stages and failed record the stages that have run
\* and the one that failed; left records, when the handler returns, which of its
\* files still exist.
IdleReq ==
    [pc |-> "idle", user |-> 0, video |-> None, file_size |-> None,
     input_path |-> None, output_path |-> None, reply |-> "",
     downloaded |-> FALSE, left |-> {},
     duration_override |-> None, scale_override |-> None, output |-> None,
     target_duration |-> 0, target_scale |-> 0, created |-> FALSE,
     result |-> None, info |-> None, start_time |-> 0, end_time |-> 0,
     segment_duration |-> 0, video_filter |-> << >>, engine |-> None,
     stages |-> << >>, failed |-> ""]

\* the locals of process_video and create_video_circle are gone on return
DropLocals(q) ==
    [q EXCEPT !.duration_override = None, !.scale_override = None,
              !.output = None, !.target_duration = 0, !.target_scale = 0,
              !.created = FALSE, !.result = None, !.info = None,
              !.start_time = 0, !.end_time = 0, !.segment_duration = 0,
              !.video_filter = << >>, !.engine = None, !.stages = << >>,
              !.failed = ""]

\* os.unlink(path) when os.path.exists(path)
Unlink(fs, path) == [p \in DOMAIN fs \ {path} |-> fs[p]]

\* a file of the given size written at path
WriteFile(fs, path, size) ==
    [p \in DOMAIN fs \cup {path} |-> IF p = path THEN size ELSE fs[p]]

-----------------------------------------------------------------------------
(* video_processor.py: process_video and create_video_circle, stage by stage. *)
(* The call is synchronous: it runs while loop = r and nothing else runs.     *)

\* what ffmpeg.probe and the parsing of get_video_info may yield: None, or
\* the duration (tenths of a second: 0.3 s, 90 s) and the frame
ProbeResults ==
    {None} \cup
    {Some([duration |-> d, width |-> 1920, height |-> 1080]) : d \in {3, 900}}

\* what ffmpeg.run may do: return (ok) or raise ffmpeg.Error, leaving the
\* output path written, empty (the placeholder, or a truncated file) or missing
EngineOutcomes == [ok : BOOLEAN, out : {"written", "empty", "missing"}]

\* lines 160-170: allocate the output file, check the input, pick the settings
PV_Begin(r) ==
    /\ loop = Running(r)
    /\ req[r].pc = "pv_begin"
    /\ \E path \in TempPaths \ DOMAIN files :
         LET fs == WriteFile(files, path, 0)
             q  == [req[r] EXCEPT !.output = Some(path)]
         IN  /\ files' = fs
             /\ req' = [req EXCEPT ![r] =
                  IF Get(q.input_path) \notin DOMAIN fs
                  THEN [q EXCEPT !.pc = "pv_returned", !.result = None,
                                 !.failed = "input"]
                  ELSE [q EXCEPT !.pc = "pv_probe",
                         !.target_duration =
                            IF q.duration_override # None
                            THEN Get(q.duration_override)
                            ELSE cfg.CIRCLE_DURATION,
                         !.target_scale =
                            IF q.scale_override # None
                            THEN Get(q.scale_override) ELSE 100]]
    /\ UNCHANGED <<cfg, user_settings, loop>>

\* lines 83-85: `if not info: return False`
AfterProbe(info) == IF info = None THEN "pv_finish" ELSE "pv_segment"

\* line 83: get_video_info
PV_Probe(r) ==
    /\ loop = Running(r)
    /\ req[r].pc = "pv_probe"
    /\ \E i \in ProbeResults :
         req' = [req EXCEPT ![r] =
            [@ EXCEPT !.info = i, !.stages = Append(@, "probe"),
                      !.pc = AfterProbe(i),
                      !.failed = IF i = None THEN "probe" ELSE "",
                      !.created = FALSE]]
    /\ UNCHANGED <<cfg, user_settings, files, loop>>

\* lines 93-94: the segment
PV_Segment(r) ==
    /\ loop = Running(r)
    /\ req[r].pc = "pv_segment"
    /\ LET seg == calculate_start_segment(Get(req[r].info).duration,
                                          req[r].target_duration)
       IN  req' = [req EXCEPT ![r] =
              [@ EXCEPT !.start_time = seg[1], !.end_time = seg[2],
                        !.segment_duration = SegmentDuration(seg[1], seg[2]),
                        !.stages = Append(@, "segment"),
                        !.pc = "pv_filter"]]
    /\ UNCHANGED <<cfg, user_settings, files, loop>>

\* line 100: the filter
PV_Filter(r) ==
    /\ loop = Running(r)
    /\ req[r].pc = "pv_filter"
    /\ req' = [req EXCEPT ![r] =
          [@ EXCEPT !.video_filter =
                       create_scale_filter(circle_size(cfg), req[r].target_scale),
                    !.stages = Append(@, "filter"),
                    !.pc = "pv_engine"]]
    /\ UNCHANGED <<cfg, user_settings, files, loop>>

\* a raised ffmpeg.Error runs the engine again
AfterEngine_retry(ok) == IF ok THEN "pv_verify" ELSE "pv_engine"

\* lines 142 and 150-153: a raised ffmpeg.Error returns False
AfterEngine(ok) == IF ok THEN "pv_verify" ELSE "pv_finish"

\* lines 102-142: ffmpeg.run on the job
PV_Engine(r) ==
    /\ loop = Running(r)
    /\ req[r].pc = "pv_engine"
    /\ \E o \in EngineOutcomes :
         /\ files' = CASE o.out = "written" ->
                            WriteFile(files, Get(req[r].output), 1)
                       [] o.out = "empty" ->
                            WriteFile(files, Get(req[r].output), 0)
                       [] OTHER -> Unlink(files, Get(req[r].output))
         /\ req' = [req EXCEPT ![r] =
              [@ EXCEPT !.engine = Some(o), !.stages = Append(@, "engine"),
                        !.pc = AfterEngine(o.ok),
                        !.failed = IF o.ok THEN "" ELSE "engine"]]
    /\ UNCHANGED <<cfg, user_settings, loop>>

\* lines 144-148: the check of the output
PV_Verify(r) ==
    /\ loop = Running(r)
    /\ req[r].pc = "pv_verify"
    /\ LET ok == OutputOk(files, Get(req[r].output))
       IN  req' = [req EXCEPT ![r] =
              [@ EXCEPT !.created = ok, !.pc = "pv_finish",
                        !.failed = IF ok THEN "" ELSE "verify"]]
    /\ UNCHANGED <<cfg, user_settings, files, loop>>

\* lines 172-176: the result of process_video
PV_Finish(r) ==
    /\ loop = Running(r)
    /\ req[r].pc = "pv_finish"
    /\ IF req[r].created
       THEN /\ req' = [req EXCEPT ![r] =
                  [@ EXCEPT !.result = req[r].output, !.pc = "pv_returned"]]
            /\ files' = files
       ELSE /\ req' = [req EXCEPT ![r] =
                  [@ EXCEPT !.result = None, !.pc = "pv_returned"]]
            /\ files' = Unlink(files, Get(req[r].output))
    /\ UNCHANGED <<cfg, user_settings, loop>>

-----------------------------------------------------------------------------
(* Segment selection alone: every probed duration and every target *)

InitSeg ==
    /\ cfg \in {c \in TierEnv : Validate(c) /\ c.CIRCLE_QUALITY = "medium"}
    /\ user_settings = << >>
    /\ files = << >>
    /\ loop = Running(1)
    /\ \E d \in 0 .. MaxDur, t \in -1 .. MaxTarget :
         req = [r \in Req |->
            IF r = 1
            THEN [IdleReq EXCEPT
                    !.pc = "pv_segment", !.stages = <<"probe">>,
                    !.target_duration = t, !.target_scale = 100,
                    !.info = Some([duration |-> d, width |-> 1920,
                                   height |-> 1080])]
            ELSE IdleReq]

NextSeg == \E r \in Req : PV_Segment(r)

SpecSeg == InitSeg /\ [][NextSeg]_vars

-----------------------------------------------------------------------------
(* Filter construction alone: every zoom of 50..300 on every quality tier *)

\* the range /scale accepts, bot.py line 113
MinScale == 50

MaxScale == 300

\* the range /duration accepts, bot.py line 75
MinDuration == 1

MaxDuration == 60

\* source frames: landscape, portrait, square
SourceFrames == {<<1920, 1080>>, <<1080, 1920>>, <<640, 640>>}

InitFilter ==
    /\ cfg \in {c \in TierEnv : Validate(c)}
    /\ user_settings = << >>
    /\ files = << >>
    /\ loop = Running(1)
    /\ \E z \in MinScale .. MaxScale, f \in SourceFrames :
         req = [r \in Req |->
            IF r = 1
            THEN [IdleReq EXCEPT
                    !.pc = "pv_filter", !.stages = <<"probe", "segment">>,
                    !.target_duration = 10, !.target_scale = z,
                    !.info = Some([duration |-> 100, width |-> f[1],
                                   height |-> f[2]]),
                    !.end_time = 100, !.segment_duration = 100]
            ELSE IdleReq]

NextFilter == \E r \in Req : PV_Filter(r)

SpecFilter == InitFilter /\ [][NextFilter]_vars

-----------------------------------------------------------------------------
(* process_video called directly: on an input that exists or not, with or   *)
(* without overrides, in a temp directory that may hold a stale output file *)

InitPV ==
    /\ cfg \in {c \in BotEnv : Validate(c)}
    /\ user_settings = << >>
    /\ loop = Running(1)
    /\ \E present \in SUBSET {InputPath(1), <<"tmp", 1>>} :
         files = [p \in present |-> 1]
    /\ \E d \in {None, Some(MinDuration), Some(MaxDuration)},
          z \in {None, Some(MinScale), Some(100), Some(MaxScale)} :
         req = [r \in Req |->
            IF r = 1
            THEN [IdleReq EXCEPT !.pc = "pv_begin",
                                 !.input_path = Some(InputPath(1)),
                                 !.duration_override = d,
                                 !.scale_override = z]
            ELSE IdleReq]

NextPV ==
    \E r \in Req :
        \/ PV_Begin(r)
        \/ PV_Probe(r)
        \/ PV_Segment(r)
        \/ PV_Filter(r)
        \/ PV_Engine(r)
        \/ PV_Verify(r)
        \/ PV_Finish(r)

SpecPV == InitPV /\ [][NextPV]_vars

-----------------------------------------------------------------------------
(* bot.py: the per-user settings and the /duration and /scale commands *)

\* the users that write to the bot, by effective_user.id
Users == {1}

\* the videos that are forwarded, by file_unique_id
Videos == {1}

\* the value of a decimal digit
DigitVal ==
    [c \in {"0", "1", "2", "3", "4", "5", "6", "7", "8", "9"} |->
        CASE c = "0" -> 0 [] c = "1" -> 1 [] c = "2" -> 2 [] c = "3" -> 3
          [] c = "4" -> 4 [] c = "5" -> 5 [] c = "6" -> 6 [] c = "7" -> 7
          [] c = "8" -> 8 [] OTHER -> 9]

RECURSIVE DigitsValue(_)
\* the number a sequence of decimal digits writes
DigitsValue(ds) ==
    IF ds = << >> THEN 0
    ELSE 10 * DigitsValue(SubSeq(ds, 1, Len(ds) - 1)) + DigitVal[ds[Len(ds)]]

\* int(token) on a token given as its characters: Some(n), or None when int()
\* raises ValueError
ParseInt(token) ==
    LET signed == token # << >> /\ token[1] \in {"-", "+"}
        digits == IF signed THEN Tail(token) ELSE token
    IN  IF digits = << >> \/ \E i \in 1 .. Len(digits) : digits[i] \notin DOMAIN DigitVal
        THEN None
        ELSE Some(IF signed /\ token[1] = "-" THEN 0 - DigitsValue(digits)
                                               ELSE DigitsValue(digits))

\* context.args of the /duration messages: none, or a first token
DurationArgs ==
    {<< >>, << <<"0">> >>, << <<"6", "0">> >>, << <<"6", "1">> >>,
     << <<"-", "5">> >>, << <<"a", "b", "c">> >>}

\* context.args of the /scale messages
ScaleArgs ==
    {<< >>, << <<"4", "9">> >>, << <<"5", "0">> >>, << <<"3", "0", "1">> >>,
     << <<"1", "5", "0", "%">> >>}

\* get_user_setting(user_id, key, default)
get_user_setting(settings, user_id, key, default) ==
    IF user_id \in DOMAIN settings /\ key \in DOMAIN settings[user_id]
    THEN settings[user_id][key]
    ELSE default

\* set_user_setting(user_id, key, value): the new user_settings
set_user_setting(settings, user_id, key, value) ==
    LET old == IF user_id \in DOMAIN settings THEN settings[user_id] ELSE << >>
        new == [k \in DOMAIN old \cup {key} |-> IF k = key THEN value ELSE old[k]]
    IN  [u \in DOMAIN settings \cup {user_id} |->
            IF u = user_id THEN new ELSE settings[u]]

\* duration_cmd, line 75: the value is rejected
DurationRejected(new_duration) ==
    new_duration < MinDuration \/ new_duration > MaxDuration

\* scale_cmd, line 113: the value is rejected
ScaleRejected(new_scale) == new_scale < MinScale \/ new_scale > MaxScale

\* duration_cmd: the user_settings it leaves
duration_cmd(settings, user_id, args) ==
    IF args = << >> THEN settings
    ELSE LET new_duration == ParseInt(args[1])
         IN  IF new_duration = None THEN settings
             ELSE IF DurationRejected(Get(new_duration)) THEN settings
             ELSE set_user_setting(settings, user_id, "duration", Get(new_duration))

\* scale_cmd: the user_settings it leaves
scale_cmd(settings, user_id, args) ==
    IF args = << >> THEN settings
    ELSE LET new_scale == ParseInt(args[1])
         IN  IF new_scale = None THEN settings
             ELSE IF ScaleRejected(Get(new_scale)) THEN settings
             ELSE set_user_setting(settings, user_id, "scale", Get(new_scale))

\* a /duration message is handled; it runs when the event loop is free
DurationCmd ==
    /\ loop = None
    /\ \E u \in Users, args \in DurationArgs :
         user_settings' = duration_cmd(user_settings, u, args)
    /\ UNCHANGED <<cfg, files, req, loop>>

\* a /scale message is handled
ScaleCmd ==
    /\ loop = None
    /\ \E u \in Users, args \in ScaleArgs :
         user_settings' = scale_cmd(user_settings, u, args)
    /\ UNCHANGED <<cfg, files, req, loop>>

-----------------------------------------------------------------------------
(* bot.py: handle_video, from one await to the next.  The dispatcher that   *)
(* schedules the handlers is a library outside these sources; handlers of   *)
(* different messages may interleave at their awaits, as coroutines do when *)
(* updates are processed concurrently.  A run in which each handler ends    *)
(* before the next starts is one of the behaviours.                         *)

\* Python's truth value of an Optional[int]
Truthy(o) == o # None /\ Get(o) # 0

\* the size check against the limit scaled once too often
TooBig_kilo(c, file_size) ==
    Truthy(file_size) /\ Get(file_size) > MAX_FILE_SIZE_BYTES(c) * 1024

\* handle_video, line 150: the file is too large
TooBig(c, file_size) ==
    Truthy(file_size) /\ Get(file_size) > MAX_FILE_SIZE_BYTES(c)

\* the file_size a video may carry: unknown, the limit, or one byte more
FileSizes(c) ==
    {None, Some(MAX_FILE_SIZE_BYTES(c)), Some(MAX_FILE_SIZE_BYTES(c) + 1)}

\* cleanup_temp_file(file_path)
cleanup_temp_file(fs, file_path) ==
    IF file_path \in DOMAIN fs THEN Unlink(fs, file_path) ELSE fs

\* of the files the handler downloaded or was handed, those that exist in fs
LeftBehind(q, fs) ==
    {k \in {"input", "output"} :
        \/ k = "input" /\ q.downloaded /\ Get(q.input_path) \in DOMAIN fs
        \/ k = "output" /\ q.output_path # None /\ Get(q.output_path) \in DOMAIN fs}

\* the handler has returned (or an exception has left it): its frame is gone
Returned(q, fs) ==
    [IdleReq EXCEPT !.pc = "done", !.downloaded = q.downloaded,
                    !.left = LeftBehind(q, fs)]

\* lines 141-156: the message arrives; up to the first await
HV_Start(r) ==
    /\ loop = None
    /\ req[r].pc = "idle"
    /\ IF r = 1 THEN TRUE ELSE req[r - 1].pc # "idle"
    /\ \E u \in Users, v \in {None} \cup {Some(x) : x \in Videos},
          size \in FileSizes(cfg) :
         /\ v = None => size = None
         /\ req' = [req EXCEPT ![r] =
              LET q == [@ EXCEPT !.user = u, !.video = v, !.file_size = size]
              IN  IF v = None
                  THEN [q EXCEPT !.pc = "replying", !.reply = "send_a_video"]
                  ELSE IF TooBig(cfg, size)
                  THEN [q EXCEPT !.pc = "replying", !.reply = "too_big"]
                  ELSE [q EXCEPT !.pc = "send_action"]]
    /\ UNCHANGED <<cfg, user_settings, files, loop>>

\* line 156: send_action returns, or raises outside the try
HV_SendAction(r) ==
    /\ loop = None
    /\ req[r].pc = "send_action"
    /\ \E ok \in BOOLEAN :
         req' = [req EXCEPT ![r] =
            IF ok THEN [@ EXCEPT !.pc = "get_file"] ELSE Returned(@, files)]
    /\ UNCHANGED <<cfg, user_settings, files, loop>>

\* lines 160-163: get_file returns and the download is started, or it raises
HV_GetFile(r) ==
    /\ loop = None
    /\ req[r].pc = "get_file"
    /\ \E ok \in BOOLEAN :
         req' = [req EXCEPT ![r] =
            IF ok
            THEN [@ EXCEPT !.pc = "download",
                           !.input_path = Some(InputPath(Get(req[r].video)))]
            ELSE [@ EXCEPT !.pc = "replying", !.reply = "error"]]
    /\ UNCHANGED <<cfg, user_settings, files, loop>>

\* lines 163-170: the download has written the file and process_video is
\* called with the user's settings, or the download raises
HV_Download(r) ==
    /\ loop = None
    /\ req[r].pc = "download"
    /\ \E ok \in BOOLEAN :
         IF ok
         THEN /\ files' = WriteFile(files, Get(req[r].input_path), 1)
              /\ req' = [req EXCEPT ![r] =
                   [@ EXCEPT !.pc = "pv_begin", !.downloaded = TRUE,
                      !.duration_override =
                         Some(get_user_setting(user_settings, req[r].user, "duration",
                                               cfg.CIRCLE_DURATION)),
                      !.scale_override =
                         Some(get_user_setting(user_settings, req[r].user, "scale", 100))]]
              /\ loop' = Running(r)
         ELSE /\ req' = [req EXCEPT ![r] =
                   [@ EXCEPT !.pc = "replying", !.reply = "error"]]
              /\ UNCHANGED <<files, loop>>
    /\ UNCHANGED <<cfg, user_settings>>

\* lines 175-181: process_video has returned; the failure reply, or the
\* output is opened and sent
HV_AfterProcess(r) ==
    /\ loop = Running(r)
    /\ req[r].pc = "pv_returned"
    /\ req' = [req EXCEPT ![r] =
          LET q == DropLocals(req[r])
          IN  IF req[r].result = None
              THEN [q EXCEPT !.pc = "replying", !.reply = "process_failed"]
              ELSE IF Get(req[r].result) \in DOMAIN files
              THEN [q EXCEPT !.pc = "sending", !.output_path = req[r].result]
              ELSE [q EXCEPT !.pc = "replying", !.reply = "error",
                             !.output_path = req[r].result]]
    /\ loop' = None
    /\ UNCHANGED <<cfg, user_settings, files>>

\* lines 181-189: reply_video_note returns and both files are cleaned up, or
\* it raises
HV_SendDone(r) ==
    /\ loop = None
    /\ req[r].pc = "sending"
    /\ \E ok \in BOOLEAN :
         IF ok
         THEN LET fs == cleanup_temp_file(
                            cleanup_temp_file(files, Get(req[r].input_path)),
                            Get(req[r].output_path))
              IN  /\ files' = fs
                  /\ req' = [req EXCEPT ![r] = Returned(@, fs)]
         ELSE /\ req' = [req EXCEPT ![r] =
                   [@ EXCEPT !.pc = "replying", !.reply = "error"]]
              /\ files' = files
    /\ UNCHANGED <<cfg, user_settings, loop>>

\* the last reply_text of the handler is over (lines 146, 151, 176, 189)
HV_Return(r) ==
    /\ loop = None
    /\ req[r].pc = "replying"
    /\ req' = [req EXCEPT ![r] = Returned(@, files)]
    /\ UNCHANGED <<cfg, user_settings, files, loop>>

-----------------------------------------------------------------------------
(* The bot: main() has validated the configuration and polls for messages *)

Init ==
    /\ cfg \in {c \in BotEnv : Validate(c)}
    /\ user_settings = << >>
    /\ files = << >>
    /\ req = [r \in Req |-> IdleReq]
    /\ loop = None

Next ==
    \/ DurationCmd
    \/ ScaleCmd
    \/ \E r \in Req :
        \/ HV_Start(r)
        \/ HV_SendAction(r)
        \/ HV_GetFile(r)
        \/ HV_Download(r)
        \/ PV_Begin(r)
        \/ PV_Probe(r)
        \/ PV_Segment(r)
        \/ PV_Filter(r)
        \/ PV_Engine(r)
        \/ PV_Verify(r)
        \/ PV_Finish(r)
        \/ HV_AfterProcess(r)
        \/ HV_SendDone(r)
        \/ HV_Return(r)

Spec == Init /\ [][Next]_vars

-----------------------------------------------------------------------------
(* The claims *)

\* the pcs of a process_video call
PVStages ==
    {"pv_begin", "pv_probe", "pv_segment", "pv_filter", "pv_engine",
     "pv_verify", "pv_finish", "pv_returned"}

\* the segment of the call has been computed and is still in its frame
SegmentDone(q) == q.pc \in PVStages /\ Len(q.stages) >= 2

\* the filter of the call has been built
FilterDone(q) == q.pc \in PVStages /\ Len(q.stages) >= 3

\* the shorter side of a frame
MinSide(frame) == Min(frame[1], frame[2])

\* C1: a handle_video that downloaded the source has, on every exit path,
\* removed the input file and any output file by the time it returns.
C1_FilesRemovedOnEveryExit ==
    \A r \in Req :
        req[r].pc = "done" /\ req[r].downloaded => req[r].left = {}

\* C2: when process_video returns None, for any cause, the temporary output
\* file it allocated no longer exists.
C2_FailureRemovesOutput ==
    \A r \in Req :
        req[r].pc = "pv_returned" /\ req[r].result = None /\ req[r].output # None
            => Get(req[r].output) \notin DOMAIN files

\* C3: for every zoom in [50,300] and every tier size, the filter graph ends
\* in a crop of size x size and every stage before that crop yields a frame
\* whose sides are at least size.
C3_StagesCoverFinalCrop ==
    \A r \in Req :
        FilterDone(req[r])
        /\ req[r].target_scale \in MinScale .. MaxScale
        => LET g    == req[r].video_filter
               size == circle_size(cfg)
               src  == <<Get(req[r].info).width, Get(req[r].info).height>>
           IN  /\ g[Len(g)] = Stage("crop", size, size)
               /\ \A k \in 1 .. Len(g) - 1 :
                     MinSide(FrameAfter(g, k, src)) >= size

\* C4: after Config.validate has succeeded and any /duration and /scale
\* commands, every call handle_video makes to process_video passes a duration
\* in [1,60] and a zoom in [50,300].
C4_SettingsInRange ==
    \A r \in Req :
        req[r].pc \in PVStages /\ req[r].pc # "pv_returned"
            => /\ req[r].duration_override # None
               /\ Get(req[r].duration_override) \in MinDuration .. MaxDuration
               /\ req[r].scale_override # None
               /\ Get(req[r].scale_override) \in MinScale .. MaxScale

\* C5: for every source duration >= 0 and every target in [1,60], the
\* requested segment (start plus extraction length) ends no later than the
\* source's duration.
C5_SegmentWithinSource ==
    \A r \in Req :
        SegmentDone(req[r])
        /\ req[r].target_duration \in MinDuration .. MaxDuration
        => req[r].start_time + req[r].segment_duration
              <= Get(req[r].info).duration

\* C5, amended: the requested segment ends no later than the source's
\* duration, or than 0.5 s when the source is shorter than 0.5 s.
C5_SegmentWithinSourceOrFloor ==
    \A r \in Req :
        SegmentDone(req[r])
        /\ req[r].target_duration \in MinDuration .. MaxDuration
        => LET d     == Get(req[r].info).duration
               until == req[r].start_time + req[r].segment_duration
           IN  IF 2 * d >= Secs(1) THEN until <= d ELSE 2 * until <= Secs(1)

\* a source shorter than 0.5 s whose segment was widened to 0.5 s
C5_ShortSourceWidened ==
    \E r \in Req :
        /\ SegmentDone(req[r])
        /\ req[r].target_duration \in MinDuration .. MaxDuration
        /\ 2 * Get(req[r].info).duration < Secs(1)
        /\ 2 * (req[r].start_time + req[r].segment_duration) = Secs(1)

\* C6: for every source duration >= 0 and every target duration, the
\* extraction length passed to the engine is at least 0.5 s.
C6_SegmentAtLeastHalfSecond ==
    \A r \in Req :
        SegmentDone(req[r]) => 2 * req[r].segment_duration >= Secs(1)

\* a source of duration zero whose extraction length is 0.5 s
C6_ZeroSourceFloored ==
    \E r \in Req :
        /\ SegmentDone(req[r])
        /\ Get(req[r].info).duration = 0
        /\ 2 * req[r].segment_duration = Secs(1)

\* C7: process_video returns a path only if, after the engine ran, a file
\* exists there and is not empty; when the engine returns but the file is
\* missing or has zero bytes, the call reports failure.
C7_OutputOnlyIfNonEmpty ==
    \A r \in Req :
        req[r].pc = "pv_returned" =>
            /\ req[r].result # None =>
                  /\ req[r].result = req[r].output
                  /\ req[r].engine # None
                  /\ Get(req[r].result) \in DOMAIN files
                  /\ files[Get(req[r].result)] > 0
            /\ ( /\ req[r].engine # None
                 /\ Get(req[r].engine).ok
                 /\ Get(req[r].engine).out \in {"empty", "missing"} )
                  => req[r].result = None

\* the engine returned, left the placeholder empty, and the call failed
C7_EmptyOutputFails ==
    \E r \in Req :
        /\ req[r].pc = "pv_returned"
        /\ req[r].engine = Some([ok |-> TRUE, out |-> "empty"])
        /\ req[r].result = None

\* C8: a video whose size exceeds MAX_FILE_SIZE_BYTES is never downloaded or
\* processed; it is rejected with the size message before any file is written.
C8_OversizeNeverDownloaded ==
    \A r \in Req :
        req[r].file_size # None
        /\ Get(req[r].file_size) > cfg.MAX_FILE_SIZE_MB * 1024 * 1024
        => /\ req[r].pc = "replying"
           /\ req[r].reply = "too_big"
           /\ ~req[r].downloaded
           /\ req[r].input_path = None
           /\ req[r].output = None
           /\ req[r].output_path = None

\* an oversized video is being answered with the size message
C8_OversizeRejected ==
    \E r \in Req :
        /\ req[r].file_size # None
        /\ Get(req[r].file_size) > cfg.MAX_FILE_SIZE_MB * 1024 * 1024
        /\ req[r].pc = "replying"
        /\ req[r].reply = "too_big"

\* the order of the stages
StageOrder == <<"probe", "segment", "filter", "engine">>

\* C9: the stages of a process_video call run in the order probe, segment,
\* filter, engine; the engine runs at most once and only after the probe
\* succeeded; once a stage has failed no later stage runs and the call ends in
\* failure, without a retry.
C9_StagesInOrderOnce ==
    \A r \in Req :
        LET q == req[r]
            n == Len(q.stages)
        IN  /\ n <= Len(StageOrder)
            /\ q.stages = SubSeq(StageOrder, 1, n)
            /\ n = Len(StageOrder) => q.info # None
            /\ q.failed # "" =>
                  /\ q.pc \in {"pv_finish", "pv_returned"}
                  /\ q.failed \in {"probe", "engine"} => q.stages[n] = q.failed
                  /\ q.failed = "verify" => n = Len(StageOrder)
                  /\ q.failed = "input" => n = 0
                  /\ ~q.created
                  /\ q.pc = "pv_returned" => q.result = None

\* the engine ran once, after the three stages before it, failed, and the
\* call returned failure
C9_EngineFailedOnce ==
    \E r \in Req :
        /\ req[r].pc = "pv_returned"
        /\ req[r].failed = "engine"
        /\ req[r].stages = StageOrder
        /\ req[r].result = None

\* the temporary paths a handler is using: from the start of its download
\* to the end of the delivery
PathsInUse(q) ==
    IF q.pc \in (PVStages \cup {"download", "sending"})
    THEN q.input_path \cup q.output \cup q.output_path
    ELSE {}

====
